---- MODULE Spec2Model ----
(***************************************************************************)
(* Model of the alloy allocation engine of TFGCalculator                   *)
(* (src/unnamed/part_001, the revision of app/functions/algorithm.ts with  *)
(* full statistics): calculateAlloy and everything it calls.               *)
(*                                                                         *)
(* Volumes (mB), yields and quantities are integers.  The source computes  *)
(* minMb = (min / 100) * targetMb and percentage = (mb / totalMb) * 100 in *)
(* floating point; the model keeps these exact by carrying the bounds      *)
(* multiplied by 100 (min * targetMb) and comparing 100 * mb with them.    *)
(* An optional field (message, stats) is a sequence: <<>> when undefined.  *)
(***************************************************************************)
EXTENDS Integers, Sequences, FiniteSets, TLC

(***************************************************************************)
(* Program constants                                                       *)
(***************************************************************************)
INGOT_SIZE == 144

MAX_BATCH_INGOTS == 8

MAX_BATCH_MB == MAX_BATCH_INGOTS * INGOT_SIZE

\* Number.MAX_SAFE_INTEGER is 2^53 - 1.  TLC's integers are 32 bits wide, so
\* the model takes the largest of them.  The value only ever arises as the
\* scale of a batch that uses no mineral (output 0): it is compared with 1
\* and multiplied by 0.
MAX_SAFE_INTEGER == 2147483647

\* getNextBatchSize returns null when no size fits; the caller tests it with
\* !currentBatchSizeMb, which null and 0 both satisfy.  Sizes are >= 144.
Null == 0

(***************************************************************************)
(* Sequence helpers (JavaScript array methods used by the source)          *)
(***************************************************************************)
Min2(a, b) == IF a <= b THEN a ELSE b

RECURSIVE SumSeq(_)
\* Array.reduce((sum, v) => sum + v, 0)
SumSeq(s) == IF s = <<>> THEN 0 ELSE Head(s) + SumSeq(Tail(s))

RECURSIVE MinSeq(_, _)
\* Math.min(...values, last)
MinSeq(s, last) == IF s = <<>> THEN last ELSE Min2(Head(s), MinSeq(Tail(s), last))

RECURSIVE FlatMap(_)
\* Array.flatMap over a sequence of sequences
FlatMap(ss) == IF ss = <<>> THEN <<>> ELSE Head(ss) \o FlatMap(Tail(ss))

\* Array.splice(i, 0, x) with 1-based i: x is inserted before position i
InsertAt(s, i, x) == SubSeq(s, 1, i - 1) \o <<x>> \o SubSeq(s, i, Len(s))

\* Array.findIndex, given the predicate's value for each element: the first
\* position (from 1) that holds TRUE, 0 when none does
FindIndex(hits) ==
    IF \E i \in 1..Len(hits) : hits[i]
    THEN CHOOSE i \in 1..Len(hits) : hits[i] /\ \A j \in 1..(i - 1) : ~hits[j]
    ELSE 0

\* String.toLowerCase on the type names the model uses
ToLowerCase(s) ==
    CASE s = "Copper" -> "copper"
      [] s = "Tin" -> "tin"
      [] OTHER -> s

\* sum of yield * quantity over a list of minerals with quantities
calculateTotalMb(minerals) ==
    SumSeq([i \in 1..Len(minerals) |-> minerals[i].mineral.yield * minerals[i].quantity])

(***************************************************************************)
(* Batch size planner                                                      *)
(***************************************************************************)
RECURSIVE FibLoop(_, _, _, _, _)
\* the for loop of generateReverseFibonacci: pushes t, then [next, prev] = [prev, t]
FibLoop(t, next, prev, max, sequence) ==
    IF t <= max
    THEN FibLoop(prev + t, prev, t, max, Append(sequence, t))
    ELSE sequence

\* Reverse as it would be if the sequence were left in ascending order
ReverseKeepsOrder(s) == s

Reverse(s) == [i \in 1..Len(s) |-> s[Len(s) + 1 - i]]

generateReverseFibonacci(max) ==
    IF max <= 0 THEN <<>> ELSE Reverse(FibLoop(1, 1, 1, max, <<>>))

BATCH_SIZE_FIBONACCI_SEQ == generateReverseFibonacci(MAX_BATCH_INGOTS)

RECURSIVE NextBatchScanIgnoresRemaining(_, _, _)
\* NextBatchScan as it would be if volumes above the remaining one were not
\* skipped
NextBatchScanIgnoresRemaining(sizes, remainingMb, currentBatchSizeMb) ==
    IF sizes = <<>> THEN Null
    ELSE LET potentialNextBatchMb == Head(sizes) * INGOT_SIZE
         IN  IF potentialNextBatchMb < currentBatchSizeMb
             THEN potentialNextBatchMb
             ELSE NextBatchScanIgnoresRemaining(Tail(sizes), remainingMb, currentBatchSizeMb)

RECURSIVE NextBatchScanUpToCurrent(_, _, _)
\* NextBatchScan as it would be if a size equal to the current one were taken
NextBatchScanUpToCurrent(sizes, remainingMb, currentBatchSizeMb) ==
    IF sizes = <<>> THEN Null
    ELSE LET potentialNextBatchMb == Head(sizes) * INGOT_SIZE
         IN  IF potentialNextBatchMb > remainingMb
             THEN NextBatchScanUpToCurrent(Tail(sizes), remainingMb, currentBatchSizeMb)
             ELSE IF potentialNextBatchMb <= currentBatchSizeMb
                  THEN potentialNextBatchMb
                  ELSE NextBatchScanUpToCurrent(Tail(sizes), remainingMb, currentBatchSizeMb)

RECURSIVE NextBatchScan(_, _, _)
NextBatchScan(sizes, remainingMb, currentBatchSizeMb) ==
    IF sizes = <<>> THEN Null
    ELSE LET potentialNextBatchMb == Head(sizes) * INGOT_SIZE
         IN  IF potentialNextBatchMb > remainingMb
             THEN NextBatchScan(Tail(sizes), remainingMb, currentBatchSizeMb)
             ELSE IF potentialNextBatchMb < currentBatchSizeMb
                  THEN potentialNextBatchMb
                  ELSE NextBatchScan(Tail(sizes), remainingMb, currentBatchSizeMb)

\* getNextBatchSize as it would be if one ingot were tried when no volume fits
getNextBatchSizeTriesOneIngot(remainingMb, currentBatchSizeMb) ==
    LET fitting == NextBatchScan(BATCH_SIZE_FIBONACCI_SEQ, remainingMb, currentBatchSizeMb)
    IN  IF fitting = Null /\ currentBatchSizeMb > INGOT_SIZE THEN INGOT_SIZE ELSE fitting

getNextBatchSize(remainingMb, currentBatchSizeMb) ==
    NextBatchScan(BATCH_SIZE_FIBONACCI_SEQ, remainingMb, currentBatchSizeMb)

(***************************************************************************)
(* Mineral classifier                                                      *)
(***************************************************************************)
\* A JavaScript Map is a sequence of [key, value] in insertion order of the keys.
MapHas(map, key) == \E i \in 1..Len(map) : map[i].key = key

MapGet(map, key) == map[CHOOSE i \in 1..Len(map) : map[i].key = key].value

MapSet(map, key, value) ==
    IF MapHas(map, key)
    THEN [i \in 1..Len(map) |-> IF map[i].key = key THEN [key |-> key, value |-> value] ELSE map[i]]
    ELSE Append(map, [key |-> key, value |-> value])

MapDelete(map, key) == SelectSeq(map, LAMBDA e : e.key # key)

MapValues(map) == [i \in 1..Len(map) |-> map[i].value]

\* mineralsByType.get(type) || []
GroupOf(mineralsByType, type) ==
    IF MapHas(mineralsByType, type) THEN MapGet(mineralsByType, type) ELSE <<>>

\* one iteration of the loop of groupAndSortMinerals: the entry goes before
\* the first entry of its type group with a strictly smaller yield, or last
InsertSorted(typeGroup, mineralWithQty) ==
    LET insertIndex == FindIndex([i \in 1..Len(typeGroup) |->
                                      typeGroup[i].mineral.yield < mineralWithQty.mineral.yield])
    IN  IF insertIndex = 0
        THEN Append(typeGroup, mineralWithQty)
        ELSE InsertAt(typeGroup, insertIndex, mineralWithQty)

RECURSIVE GroupLoop(_, _)
GroupLoop(availableMinerals, mineralsByType) ==
    IF availableMinerals = <<>> THEN mineralsByType
    ELSE LET mineralWithQty == Head(availableMinerals)
             producedMineral == ToLowerCase(mineralWithQty.mineral.produces)
             typeGroup == GroupOf(mineralsByType, producedMineral)
         IN  GroupLoop(Tail(availableMinerals),
                       MapSet(mineralsByType, producedMineral, InsertSorted(typeGroup, mineralWithQty)))

groupAndSortMinerals(availableMinerals) == GroupLoop(availableMinerals, <<>>)

calculateAvailableMbByType(mineralsByType) ==
    [i \in 1..Len(mineralsByType) |->
        [key |-> mineralsByType[i].key, value |-> calculateTotalMb(mineralsByType[i].value)]]

(***************************************************************************)
(* Inventory ledger                                                        *)
(***************************************************************************)
RECURSIVE MapFromEntries(_, _)
\* new Map(currentMinerals.map(m => [m.mineral.name, {...m}]))
MapFromEntries(minerals, map) ==
    IF minerals = <<>> THEN map
    ELSE MapFromEntries(Tail(minerals), MapSet(map, Head(minerals).mineral.name, Head(minerals)))

\* the body of usedMinerals.forEach in updateAvailableMinerals
SubtractUsed(updatedMinerals, used) ==
    IF MapHas(updatedMinerals, used.mineral.name)
    THEN LET current == MapGet(updatedMinerals, used.mineral.name)
             quantity == current.quantity - used.quantity
         IN  IF quantity <= 0
             THEN MapDelete(updatedMinerals, used.mineral.name)
             ELSE MapSet(updatedMinerals, used.mineral.name, [current EXCEPT !.quantity = quantity])
    ELSE updatedMinerals

RECURSIVE SubtractAll(_, _)
SubtractAll(updatedMinerals, usedMinerals) ==
    IF usedMinerals = <<>> THEN updatedMinerals
    ELSE SubtractAll(SubtractUsed(updatedMinerals, Head(usedMinerals)), Tail(usedMinerals))

\* updateAvailableMinerals as it would be if nothing were subtracted
updateAvailableMineralsKeepsStock(currentMinerals, usedMinerals) ==
    MapValues(MapFromEntries(currentMinerals, <<>>))

updateAvailableMinerals(currentMinerals, usedMinerals) ==
    MapValues(SubtractAll(MapFromEntries(currentMinerals, <<>>), usedMinerals))

\* CurrentMineralsAfterUpdate as it would be if the map held the entries
\* themselves instead of copies: the subtraction reaches the entry of that name
CurrentMineralsWrittenInPlace(currentMinerals, usedMinerals) ==
    [i \in 1..Len(currentMinerals) |->
        [currentMinerals[i] EXCEPT
            !.quantity = @ - SumSeq([j \in 1..Len(usedMinerals) |->
                                        IF usedMinerals[j].mineral.name = currentMinerals[i].mineral.name
                                        THEN usedMinerals[j].quantity ELSE 0])]]

\* what the entries of currentMinerals hold once updateAvailableMinerals has
\* returned: the map is built from copies ({...m}), and current.quantity -=
\* used.quantity, the only write to an entry, goes to a copy
CurrentMineralsAfterUpdate(currentMinerals, usedMinerals) == currentMinerals

(***************************************************************************)
(* Consolidation                                                           *)
(***************************************************************************)
RECURSIVE ConsolidateReduceKeepsLast(_, _)
\* ConsolidateReduce as it would be if a repeated name replaced the entry
\* instead of adding to it
ConsolidateReduceKeepsLast(minerals, acc) ==
    IF minerals = <<>> THEN acc
    ELSE ConsolidateReduceKeepsLast(Tail(minerals),
             MapSet(acc, Head(minerals).mineral.name, Head(minerals)))

RECURSIVE ConsolidateReduce(_, _)
ConsolidateReduce(minerals, acc) ==
    IF minerals = <<>> THEN acc
    ELSE LET current == Head(minerals)
             name == current.mineral.name
         IN  ConsolidateReduce(Tail(minerals),
                 IF MapHas(acc, name)
                 THEN LET existing == MapGet(acc, name)
                      IN  MapSet(acc, name, [existing EXCEPT !.quantity = existing.quantity + current.quantity])
                 ELSE MapSet(acc, name, current))

consolidateMinerals(minerals) ==
    IF Len(minerals) <= 1 THEN minerals
    ELSE MapValues(ConsolidateReduce(minerals, <<>>))

getFinalMinerals(batchResults) ==
    consolidateMinerals(FlatMap([i \in 1..Len(batchResults) |-> batchResults[i].usedMinerals]))

(***************************************************************************)
(* Batch scaler                                                            *)
(***************************************************************************)
\* availableMinerals.find(m => m.mineral.name === name)!
FindByName(availableMinerals, name) ==
    availableMinerals[FindIndex([i \in 1..Len(availableMinerals) |->
                                     availableMinerals[i].mineral.name = name])]

\* calculateViableBatchScale as it would be if only the first mineral used
\* were consulted instead of the minimum over all of them
calculateViableBatchScaleOfFirst(batch, availableMinerals) ==
    IF batch.usedMinerals = <<>> THEN MAX_SAFE_INTEGER
    ELSE FindByName(availableMinerals, batch.usedMinerals[1].mineral.name).quantity
             \div batch.usedMinerals[1].quantity

calculateViableBatchScale(batch, availableMinerals) ==
    MinSeq([i \in 1..Len(batch.usedMinerals) |->
               FindByName(availableMinerals, batch.usedMinerals[i].mineral.name).quantity
                   \div batch.usedMinerals[i].quantity],
           MAX_SAFE_INTEGER)

\* the scaled result carries no message and no stats
scaleBatch(batchResult, scale) ==
    [success |-> batchResult.success,
     usedMinerals |-> [i \in 1..Len(batchResult.usedMinerals) |->
                          [mineral |-> batchResult.usedMinerals[i].mineral,
                           quantity |-> batchResult.usedMinerals[i].quantity * scale]],
     outputMb |-> batchResult.outputMb * scale,
     message |-> <<>>,
     stats |-> <<>>]

(***************************************************************************)
(* Component search.  minMb and maxMb are carried in hundredths of a mB    *)
(* (min * targetMb for (min / 100) * targetMb), mb in whole mB.            *)
(***************************************************************************)
isValidCombination(mb, minMb, maxMb) == 100 * mb >= minMb /\ 100 * mb <= maxMb

\* tryAddMineralQuantity as it would be if a volume equal to maxMb were refused
tryAddMineralQuantityBelowMax(state, mineral, quantity, maxMb) ==
    LET newMb == state.mb + (mineral.mineral.yield * quantity)
    IN  IF 100 * newMb >= maxMb THEN <<>>
        ELSE <<[minerals |-> IF quantity > 0
                             THEN Append(state.minerals, [mineral |-> mineral.mineral, quantity |-> quantity])
                             ELSE state.minerals,
                index |-> state.index + 1,
                mb |-> newMb]>>

\* <<>> for null, <<newState>> otherwise; index counts from 0 as in the source
tryAddMineralQuantity(state, mineral, quantity, maxMb) ==
    LET newMb == state.mb + (mineral.mineral.yield * quantity)
    IN  IF 100 * newMb > maxMb THEN <<>>
        ELSE <<[minerals |-> IF quantity > 0
                             THEN Append(state.minerals, [mineral |-> mineral.mineral, quantity |-> quantity])
                             ELSE state.minerals,
                index |-> state.index + 1,
                mb |-> newMb]>>

RECURSIVE PushQuantitiesBelowStock(_, _, _, _, _)
\* PushQuantities as it would be if the loop stopped one short of the stocked
\* quantity (qty < currentMineral.quantity)
PushQuantitiesBelowStock(stack, current, currentMineral, qty, maxMb) ==
    IF qty >= currentMineral.quantity THEN stack
    ELSE LET newState == tryAddMineralQuantity(current, currentMineral, qty, maxMb)
         IN  IF newState = <<>> THEN stack
             ELSE PushQuantitiesBelowStock(Append(stack, newState[1]), current, currentMineral, qty + 1, maxMb)

RECURSIVE PushQuantities(_, _, _, _, _)
\* for (qty = 0; qty <= currentMineral.quantity; ++qty): push, or break on null
PushQuantities(stack, current, currentMineral, qty, maxMb) ==
    IF qty > currentMineral.quantity THEN stack
    ELSE LET newState == tryAddMineralQuantity(current, currentMineral, qty, maxMb)
         IN  IF newState = <<>> THEN stack
             ELSE PushQuantities(Append(stack, newState[1]), current, currentMineral, qty + 1, maxMb)

\* one iteration of while (stack.length > 0) in generateComponentCombinations;
\* S holds the function's stack, componentCombinations and stats
SearchStep(S, minerals, minMb, maxMb) ==
    IF S.stack = <<>> THEN S
    ELSE LET current == S.stack[Len(S.stack)]
             popped == SubSeq(S.stack, 1, Len(S.stack) - 1)
             valid == isValidCombination(current.mb, minMb, maxMb)
             declined == ~valid /\ (100 * current.mb < minMb \/ 100 * current.mb > maxMb)
         IN  [stack |-> IF current.index >= Len(minerals) \/ 100 * current.mb > maxMb
                        THEN popped
                        ELSE PushQuantities(popped, current, minerals[current.index + 1], 0, maxMb),
              componentCombinations |-> IF valid THEN Append(S.componentCombinations, current.minerals)
                                        ELSE S.componentCombinations,
              stats |-> [runs |-> S.stats.runs + 1,
                         accepts |-> S.stats.accepts + (IF valid THEN 1 ELSE 0),
                         declines |-> S.stats.declines + (IF declined THEN 1 ELSE 0)]]

RECURSIVE SearchSteps(_, _, _, _, _)
\* n iterations of the loop, halving n to keep the evaluation shallow
SearchSteps(S, n, minerals, minMb, maxMb) ==
    IF n = 0 \/ S.stack = <<>> THEN S
    ELSE IF n = 1 THEN SearchStep(S, minerals, minMb, maxMb)
    ELSE SearchSteps(SearchSteps(S, n \div 2, minerals, minMb, maxMb),
                     n - (n \div 2), minerals, minMb, maxMb)

RECURSIVE SearchLoop(_, _, _, _, _)
\* the while loop run until the stack is empty
SearchLoop(S, n, minerals, minMb, maxMb) ==
    LET T == SearchSteps(S, n, minerals, minMb, maxMb)
    IN  IF T.stack = <<>> THEN T ELSE SearchLoop(T, 2 * n, minerals, minMb, maxMb)

generateComponentCombinations(minerals, minMb, maxMb) ==
    LET S == SearchLoop([stack |-> <<[minerals |-> <<>>, index |-> 0, mb |-> 0]>>,
                         componentCombinations |-> <<>>,
                         stats |-> [runs |-> 0, accepts |-> 0, declines |-> 0]],
                        16, minerals, minMb, maxMb)
    IN  [combinations |-> S.componentCombinations, stats |-> S.stats]

(***************************************************************************)
(* Batch assembler                                                         *)
(***************************************************************************)
\* SortByMin as it would be if the components were processed as declared
SortByMinAsDeclared(components) == components

RECURSIVE SortByMin(_)
\* [...components].sort((a, b) => a.min - b.min): stable, ascending min
SortByMin(components) ==
    IF components = <<>> THEN <<>>
    ELSE LET sortedFront == SortByMin(SubSeq(components, 1, Len(components) - 1))
             last == components[Len(components)]
             insertIndex == FindIndex([i \in 1..Len(sortedFront) |-> sortedFront[i].min > last.min])
         IN  IF insertIndex = 0 THEN Append(sortedFront, last)
             ELSE InsertAt(sortedFront, insertIndex, last)

\* mbByType.get(type) ?? 0: the map is keyed by mineral.produces as written
MbOfType(minerals, type) ==
    SumSeq([i \in 1..Len(minerals) |->
               IF minerals[i].mineral.produces = type
               THEN minerals[i].mineral.yield * minerals[i].quantity
               ELSE 0])

\* isValidCombination local to calculateSingleBatch (it shadows the function
\* of the same name): exact total, then every component's percentage
isValidBatchCombination(minerals, targetMb, sortedComponents) ==
    LET totalMb == calculateTotalMb(minerals)
    IN  /\ totalMb = targetMb
        /\ \A k \in 1..Len(sortedComponents) :
              LET component == sortedComponents[k]
                  mb == MbOfType(minerals, ToLowerCase(component.mineral))
              IN  100 * mb >= component.min * totalMb /\ 100 * mb <= component.max * totalMb

BatchFailure(text, component, componentStats) ==
    [outputMb |-> 0,
     usedMinerals |-> <<>>,
     success |-> FALSE,
     message |-> <<text, component.mineral>>,
     stats |-> <<[generation |-> componentStats]>>]

\* MineralsOfComponent as it would be if the minerals of every type were
\* offered to a component
MineralsOfAnyType(mineralsByType, mineralType) ==
    FlatMap(MapValues(mineralsByType))

\* const minerals = mineralsByType.get(mineralType) || []
MineralsOfComponent(mineralsByType, mineralType) ==
    GroupOf(mineralsByType, mineralType)

RECURSIVE ComponentLoop(_, _, _, _, _)
\* for (const component of sortedComponents), from the k-th component on
ComponentLoop(k, currentCombination, sortedComponents, mineralsByType, targetMb) ==
    IF k > Len(sortedComponents)
    THEN [outputMb |-> calculateTotalMb(currentCombination),
          usedMinerals |-> currentCombination,
          success |-> TRUE,
          message |-> <<>>,
          stats |-> <<>>]
    ELSE LET component == sortedComponents[k]
             mineralType == ToLowerCase(component.mineral)
             minerals == MineralsOfComponent(mineralsByType, mineralType)
             minMb == component.min * targetMb
             maxMb == component.max * targetMb
             componentCombinationResult == generateComponentCombinations(minerals, minMb, maxMb)
             componentCombinations == componentCombinationResult.combinations
             componentStats == componentCombinationResult.stats
             found == IF k = Len(sortedComponents)
                      THEN FindIndex([i \in 1..Len(componentCombinations) |->
                                         isValidBatchCombination(currentCombination \o componentCombinations[i],
                                                                 targetMb, sortedComponents)])
                      ELSE 1
         IN  IF Len(componentCombinations) = 0
             THEN BatchFailure("No valid combinations found for component: ", component, componentStats)
             ELSE IF found = 0
                  THEN BatchFailure("No valid combination found for component: ", component, componentStats)
                  ELSE ComponentLoop(k + 1, currentCombination \o componentCombinations[found],
                                     sortedComponents, mineralsByType, targetMb)

calculateSingleBatch(targetMb, components, availableMinerals) ==
    ComponentLoop(1, <<>>, SortByMin(components), groupAndSortMinerals(availableMinerals), targetMb)

(***************************************************************************)
(* Alloy solver: the batch loop of findValidCombinationBatched.  L is the  *)
(* record of the function's local variables.  batchScaleEfficiency, a      *)
(* floating-point sum of the scales that no decision reads, is left out.   *)
(* attempts is a history of the iterations: for each, the size tried, the  *)
(* stock it ran against, the batch found, its scale and the batch recorded.*)
(***************************************************************************)
LoopInit(targetMb, availableMinerals) ==
    [availableMinerals |-> availableMinerals,
     batchResults |-> <<>>,
     remainingMb |-> targetMb,
     nextBatchSizeMb |-> MAX_BATCH_MB,
     batchRunCount |-> 0,
     batchAcceptCount |-> 0,
     batchDeclineCount |-> 0,
     batchBacktrackPotential |-> 0,
     broke |-> FALSE,
     attempts |-> <<>>]

\* while (remainingMb > 0), until the break
LoopRuns(L) == L.remainingMb > 0 /\ ~L.broke

\* scale > 1 ? scaleBatch(batchResult, scale) : batchResult
ScaledBatchResult(batchResult, scale) ==
    IF scale > 1 THEN scaleBatch(batchResult, scale) ELSE batchResult

\* the if (batchResult?.success) branch
AcceptBatch(L, currentBatchSizeMb, batchResult) ==
    LET scale == calculateViableBatchScale(batchResult, L.availableMinerals)
        scaledBatchResult == ScaledBatchResult(batchResult, scale)
    IN  [L EXCEPT !.batchRunCount = @ + 1,
                  !.batchAcceptCount = @ + 1,
                  !.batchResults = Append(@, scaledBatchResult),
                  !.remainingMb = @ - scaledBatchResult.outputMb,
                  !.availableMinerals = updateAvailableMinerals(@, scaledBatchResult.usedMinerals),
                  !.nextBatchSizeMb = currentBatchSizeMb,
                  !.attempts = Append(@, [size |-> currentBatchSizeMb,
                                          stock |-> L.availableMinerals,
                                          found |-> batchResult,
                                          scale |-> scale,
                                          recorded |-> scaledBatchResult])]

\* DeclineBatch as it would be if the volume tried were deducted all the same
DeclineBatchDeductsSize(L, currentBatchSizeMb, batchResult) ==
    [L EXCEPT !.batchRunCount = @ + 1,
              !.batchDeclineCount = @ + 1,
              !.remainingMb = @ - currentBatchSizeMb,
              !.nextBatchSizeMb = currentBatchSizeMb,
              !.attempts = Append(@, [size |-> currentBatchSizeMb,
                                      stock |-> L.availableMinerals,
                                      found |-> batchResult,
                                      scale |-> 0,
                                      recorded |-> batchResult])]

\* DeclineBatch as it would be if a declined size were not remembered
DeclineBatchForgetsSize(L, currentBatchSizeMb, batchResult) ==
    [L EXCEPT !.batchRunCount = @ + 1,
              !.batchDeclineCount = @ + 1,
              !.attempts = Append(@, [size |-> currentBatchSizeMb,
                                      stock |-> L.availableMinerals,
                                      found |-> batchResult,
                                      scale |-> 0,
                                      recorded |-> batchResult])]

\* the else branch: ++batchDeclineCount
DeclineBatch(L, currentBatchSizeMb, batchResult) ==
    [L EXCEPT !.batchRunCount = @ + 1,
              !.batchDeclineCount = @ + 1,
              !.nextBatchSizeMb = currentBatchSizeMb,
              !.attempts = Append(@, [size |-> currentBatchSizeMb,
                                      stock |-> L.availableMinerals,
                                      found |-> batchResult,
                                      scale |-> 0,
                                      recorded |-> batchResult])]

\* if (!currentBatchSizeMb) { ++batchBacktrackPotential; break; }
BreakLoop(L) ==
    [L EXCEPT !.batchRunCount = @ + 1,
              !.batchBacktrackPotential = @ + 1,
              !.broke = TRUE]

\* one iteration of the while loop
LoopBody(L, components) ==
    LET currentBatchSizeMb == getNextBatchSize(L.remainingMb, L.nextBatchSizeMb)
        batchResult == calculateSingleBatch(currentBatchSizeMb, components, L.availableMinerals)
    IN  IF currentBatchSizeMb = Null THEN BreakLoop(L)
        ELSE IF batchResult.success
             THEN AcceptBatch(L, currentBatchSizeMb, batchResult)
             ELSE DeclineBatch(L, currentBatchSizeMb, batchResult)

\* result.stats?.generation ?? 0 for each counter
GenerationOf(result) ==
    IF result.stats = <<>> THEN [runs |-> 0, accepts |-> 0, declines |-> 0]
    ELSE result.stats[1].generation

BatchedStats(L) ==
    [generation |->
        [runs |-> SumSeq([i \in 1..Len(L.batchResults) |-> GenerationOf(L.batchResults[i]).runs]),
         accepts |-> SumSeq([i \in 1..Len(L.batchResults) |-> GenerationOf(L.batchResults[i]).accepts]),
         declines |-> SumSeq([i \in 1..Len(L.batchResults) |-> GenerationOf(L.batchResults[i]).declines])],
     batch |->
        [count |-> L.batchRunCount,
         accepts |-> L.batchAcceptCount,
         declines |-> L.batchDeclineCount,
         backtrackPotential |-> L.batchBacktrackPotential]]

\* what findValidCombinationBatched returns once the loop is over
\* BatchedResult as it would be if the batches' volume were not compared
\* with the target
BatchedResultWithoutTarget(L, targetMb) ==
    [outputMb |-> SumSeq([i \in 1..Len(L.batchResults) |-> L.batchResults[i].outputMb]),
     usedMinerals |-> getFinalMinerals(L.batchResults),
     success |-> TRUE,
     message |-> <<>>,
     stats |-> <<BatchedStats(L)>>]

BatchedResult(L, targetMb) ==
    LET totalOutputMb == SumSeq([i \in 1..Len(L.batchResults) |-> L.batchResults[i].outputMb])
    IN  IF totalOutputMb >= targetMb
        THEN [outputMb |-> totalOutputMb,
              usedMinerals |-> getFinalMinerals(L.batchResults),
              success |-> TRUE,
              message |-> <<>>,
              stats |-> <<BatchedStats(L)>>]
        ELSE [outputMb |-> 0,
              usedMinerals |-> <<>>,
              success |-> FALSE,
              message |-> <<"No valid combination found!">>,
              stats |-> <<BatchedStats(L)>>]

RECURSIVE RunLoop(_, _)
RunLoop(L, components) == IF LoopRuns(L) THEN RunLoop(LoopBody(L, components), components) ELSE L

findValidCombinationBatched(targetMb, components, availableMinerals) ==
    BatchedResult(RunLoop(LoopInit(targetMb, availableMinerals), components), targetMb)

(***************************************************************************)
(* Alloy solver: calculateAlloy                                            *)
(***************************************************************************)
TotalAvailableByType(availableMinerals) ==
    calculateAvailableMbByType(groupAndSortMinerals(availableMinerals))

\* TotalAvailable as it would be if the total were never found short
TotalAvailableAssumedAmple(availableMinerals) == MAX_SAFE_INTEGER

\* the sum of the values of totalAvailableByType
TotalAvailable(availableMinerals) ==
    LET totalAvailableByType == TotalAvailableByType(availableMinerals)
    IN  SumSeq([i \in 1..Len(totalAvailableByType) |-> totalAvailableByType[i].value])

\* totalAvailableByType.get(mineralType) ?? 0
AvailableOfType(availableMinerals, mineralType) ==
    LET totalAvailableByType == TotalAvailableByType(availableMinerals)
    IN  IF MapHas(totalAvailableByType, mineralType) THEN MapGet(totalAvailableByType, mineralType) ELSE 0

\* available < minRequired, with minRequired = (min / 100) * targetMb
Deficient(component, targetMb, availableMinerals) ==
    100 * AvailableOfType(availableMinerals, ToLowerCase(component.mineral)) < component.min * targetMb

\* FirstDeficient as it would be if the components were checked in ascending
\* order of min, as the batch assembler takes them
FirstDeficientByLowestMin(targetAlloy, targetMb, availableMinerals) ==
    LET short == {i \in 1..Len(targetAlloy.components) :
                     Deficient(targetAlloy.components[i], targetMb, availableMinerals)}
    IN  IF short = {} THEN 0
        ELSE CHOOSE i \in short :
                 \A j \in short :
                     \/ targetAlloy.components[i].min < targetAlloy.components[j].min
                     \/ targetAlloy.components[i].min = targetAlloy.components[j].min /\ i <= j

\* position of the first deficient component in declared order, 0 if none
FirstDeficient(targetAlloy, targetMb, availableMinerals) ==
    FindIndex([i \in 1..Len(targetAlloy.components) |->
                  Deficient(targetAlloy.components[i], targetMb, availableMinerals)])

\* the two early returns: no stats field
EarlyFailure(message) ==
    [outputMb |-> 0, usedMinerals |-> <<>>, success |-> FALSE, message |-> message, stats |-> <<>>]

NotEnoughTotal == <<"Not enough total material available">>

NotEnoughComponent(mineralType) == <<"Not enough ", mineralType, " for minimum requirement">>

CouldNotFind == <<"Could not find valid combination of materials">>

\* { ...result.stats, usage: { memoryMB: 0, runtimeMs: timeTaken } }
WithUsage(stats, timeTaken) ==
    [generation |-> stats.generation, batch |-> stats.batch,
     usage |-> [memoryMB |-> 0, runtimeMs |-> timeTaken]]

\* FinalResult as it would be if the success return passed on the volume the
\* batches add up to (outputMb: result.outputMb)
FinalResultReportsBatchTotal(result, targetMb, timeTaken) ==
    IF ~result.success
    THEN [outputMb |-> 0,
          usedMinerals |-> <<>>,
          success |-> FALSE,
          message |-> CouldNotFind,
          stats |-> <<WithUsage(result.stats[1], timeTaken)>>]
    ELSE [outputMb |-> result.outputMb,
          usedMinerals |-> result.usedMinerals,
          success |-> TRUE,
          message |-> <<>>,
          stats |-> <<WithUsage(result.stats[1], timeTaken)>>]

\* FinalResult as it would be if a search that took a measurable time were
\* given up as failed
FinalResultWithDeadline(result, targetMb, timeTaken) ==
    IF ~result.success \/ timeTaken > 0
    THEN [outputMb |-> 0,
          usedMinerals |-> <<>>,
          success |-> FALSE,
          message |-> CouldNotFind,
          stats |-> <<WithUsage(result.stats[1], timeTaken)>>]
    ELSE [outputMb |-> targetMb,
          usedMinerals |-> result.usedMinerals,
          success |-> TRUE,
          message |-> <<>>,
          stats |-> <<WithUsage(result.stats[1], timeTaken)>>]

\* FinalResult as it would be if a failed search were passed on as it is
FinalResultForwardsFailure(result, targetMb, timeTaken) ==
    IF ~result.success
    THEN [result EXCEPT !.stats = <<WithUsage(result.stats[1], timeTaken)>>]
    ELSE [outputMb |-> targetMb,
          usedMinerals |-> result.usedMinerals,
          success |-> TRUE,
          message |-> <<>>,
          stats |-> <<WithUsage(result.stats[1], timeTaken)>>]

\* the two returns that follow findValidCombinationBatched
FinalResult(result, targetMb, timeTaken) ==
    IF ~result.success
    THEN [outputMb |-> 0,
          usedMinerals |-> <<>>,
          success |-> FALSE,
          message |-> CouldNotFind,
          stats |-> <<WithUsage(result.stats[1], timeTaken)>>]
    ELSE [outputMb |-> targetMb,
          usedMinerals |-> result.usedMinerals,
          success |-> TRUE,
          message |-> <<>>,
          stats |-> <<WithUsage(result.stats[1], timeTaken)>>]

calculateAlloy(targetMb, targetAlloy, availableMinerals, timeTaken) ==
    IF TotalAvailable(availableMinerals) < targetMb
    THEN EarlyFailure(NotEnoughTotal)
    ELSE LET d == FirstDeficient(targetAlloy, targetMb, availableMinerals)
         IN  IF d # 0
             THEN EarlyFailure(NotEnoughComponent(ToLowerCase(targetAlloy.components[d].mineral)))
             ELSE FinalResult(findValidCombinationBatched(targetMb, targetAlloy.components, availableMinerals),
                              targetMb, timeTaken)

(***************************************************************************)
(* Inputs of a call: alloys, stocks and target volumes.  The family takes  *)
(* every quantity up to MaxQty of three minerals of the alloys' types,     *)
(* with and without a mineral of an unrelated type, every alloy below and  *)
(* every target up to MaxIngots ingots plus two targets that are no whole  *)
(* number of ingots; the scenarios are the cases of the repository's tests.*)
(***************************************************************************)
MaxQty == 5

MaxIngots == 4

MaxRuntimeMs == 1

Component(mineral, min, max) == [mineral |-> mineral, min |-> min, max |-> max]

Mineral(name, produces, yield) == [name |-> name, produces |-> produces, yield |-> yield]

Entry(mineral, quantity) == [mineral |-> mineral, quantity |-> quantity]

Bronze ==
    [name |-> "Bronze", components |-> <<Component("tin", 8, 12), Component("copper", 88, 92)>>]

CapitalisedBronze ==
    [name |-> "Bronze", components |-> <<Component("Tin", 8, 12), Component("Copper", 88, 92)>>]

\* declared with the larger minimum first
HalfAndHalf ==
    [name |-> "Half and half", components |-> <<Component("copper", 50, 75), Component("tin", 25, 50)>>]

PureCopper ==
    [name |-> "Pure copper", components |-> <<Component("copper", 100, 100)>>]

\* the same type required by two components
Doubled ==
    [name |-> "Doubled", components |-> <<Component("copper", 50, 100), Component("copper", 50, 100)>>]

NoComponents == [name |-> "Nothing", components |-> <<>>]

Alloys == {Bronze, CapitalisedBronze, HalfAndHalf, PureCopper, Doubled, NoComponents}

Cassiterite == Mineral("Cassiterite", "tin", 16)

Tetrahedrite == Mineral("Tetrahedrite", "copper", 32)

Malachite == Mineral("Malachite", "copper", 128)

Hematite == Mineral("Hematite", "iron", 48)

Catalogue == <<Cassiterite, Tetrahedrite, Malachite>>

RelatedStocks ==
    {[i \in 1..Len(Catalogue) |-> Entry(Catalogue[i], q[i])] : q \in [1..Len(Catalogue) -> 0..MaxQty]}

FamilyStocks == RelatedStocks \cup {s \o <<Entry(Hematite, 2)>> : s \in RelatedStocks}

FamilyTargets == {INGOT_SIZE * n : n \in 1..MaxIngots} \cup {1, 100, 143, 200}

Input(t, a, s) == [targetMb |-> t, targetAlloy |-> a, stock |-> s]

FamilyInputs == {Input(t, a, s) : t \in FamilyTargets, a \in Alloys, s \in FamilyStocks}

\* createTestMinerals of the test file: name "<name> variant <i>"
TinVariant1 == Mineral("tin variant 1", "tin", 16)

TinVariant2 == Mineral("tin variant 2", "tin", 48)

TinVariant3 == Mineral("tin variant 3", "tin", 72)

CopperVariant1 == Mineral("copper variant 1", "copper", 24)

CopperVariant2 == Mineral("copper variant 2", "copper", 36)

CopperVariant3 == Mineral("copper variant 3", "copper", 48)

CopperVariant4 == Mineral("copper variant 4", "copper", 72)

\* both are named "other variant 1" by the test file
OtherIron == Mineral("other variant 1", "iron", 24)

OtherSilver == Mineral("other variant 1", "silver", 36)

ExactMinerals == <<Entry(TinVariant1, 3), Entry(CopperVariant1, 7), Entry(CopperVariant2, 6)>>

MoreThanEnoughMinerals ==
    <<Entry(TinVariant1, 50), Entry(TinVariant2, 3), Entry(TinVariant3, 7),
      Entry(CopperVariant1, 7), Entry(CopperVariant2, 6), Entry(CopperVariant3, 6), Entry(CopperVariant4, 8)>>

WithUnusedMinerals == ExactMinerals \o <<Entry(OtherIron, 3), Entry(OtherSilver, 2)>>

NoMinerals == <<>>

NotEnoughTotalMinerals == <<Entry(TinVariant1, 2), Entry(CopperVariant1, 7), Entry(CopperVariant2, 6)>>

NotEnoughComponentMinerals == <<Entry(TinVariant1, 32), Entry(CopperVariant1, 2), Entry(CopperVariant2, 2)>>

TestStocks ==
    {ExactMinerals, MoreThanEnoughMinerals, WithUnusedMinerals,
     NoMinerals, NotEnoughTotalMinerals, NotEnoughComponentMinerals}

\* every test case asks for 3 ingots of bronze
TestInputs == {Input(3 * INGOT_SIZE, Bronze, s) : s \in TestStocks}

\* a stock whose copper adds up to exactly half of two ingots, for the alloy
\* that requires copper twice; the iron makes up the total
DoubledInput == Input(2 * INGOT_SIZE, Doubled, <<Entry(CopperVariant2, 4), Entry(OtherIron, 6)>>)

\* calls that walk down the batch sizes: a target of the maximum batch
\* volume and one above it, met from the test's largest stock; a stock no
\* batch size can be met from; a batch accepted with its own size left over
BackOffInputs ==
    {Input(MAX_BATCH_MB, Bronze, MoreThanEnoughMinerals),
     Input(MAX_BATCH_MB + INGOT_SIZE, Bronze, MoreThanEnoughMinerals),
     Input(MAX_BATCH_MB, PureCopper, <<Entry(Malachite, 10)>>),
     Input(4 * INGOT_SIZE, PureCopper, <<Entry(Tetrahedrite, 10), Entry(Malachite, 2)>>)}

Inputs == FamilyInputs \cup TestInputs \cup {DoubledInput} \cup BackOffInputs

(***************************************************************************)
(* One call of calculateAlloy as a state machine                           *)
(***************************************************************************)
VARIABLES targetMb, targetAlloy, stock, pc, locals, result

vars == <<targetMb, targetAlloy, stock, pc, locals, result>>

Init ==
    /\ \E input \in Inputs :
          /\ targetMb = input.targetMb
          /\ targetAlloy = input.targetAlloy
          /\ stock = input.stock
          /\ locals = LoopInit(input.targetMb, input.stock)
    /\ pc = "start"
    /\ result = <<>>

\* if (totalAvailable < targetMb) return ...
InsufficientTotal ==
    /\ pc = "start"
    /\ TotalAvailable(stock) < targetMb
    /\ result' = <<EarlyFailure(NotEnoughTotal)>>
    /\ pc' = "done"
    /\ UNCHANGED <<targetMb, targetAlloy, stock, locals>>

\* the first component whose type cannot reach its minimum: return ...
InsufficientComponent ==
    /\ pc = "start"
    /\ TotalAvailable(stock) >= targetMb
    /\ FirstDeficient(targetAlloy, targetMb, stock) # 0
    /\ LET component == targetAlloy.components[FirstDeficient(targetAlloy, targetMb, stock)]
       IN  result' = <<EarlyFailure(NotEnoughComponent(ToLowerCase(component.mineral)))>>
    /\ pc' = "done"
    /\ UNCHANGED <<targetMb, targetAlloy, stock, locals>>

\* both checks pass: findValidCombinationBatched is entered
StartSearch ==
    /\ pc = "start"
    /\ TotalAvailable(stock) >= targetMb
    /\ FirstDeficient(targetAlloy, targetMb, stock) = 0
    /\ locals' = LoopInit(targetMb, stock)
    /\ pc' = "loop"
    /\ UNCHANGED <<targetMb, targetAlloy, stock, result>>

\* availableMinerals is still the array the caller passed: the first accepted
\* batch replaces it by the list updateAvailableMinerals returns
CallerOwned(L) == L.batchAcceptCount = 0

\* one iteration of the batch loop
BatchIteration ==
    /\ pc = "loop"
    /\ LoopRuns(locals)
    /\ locals' = LoopBody(locals, targetAlloy.components)
    /\ stock' = IF CallerOwned(locals) /\ ~CallerOwned(locals')
                THEN CurrentMineralsAfterUpdate(stock, locals'.batchResults[1].usedMinerals)
                ELSE stock
    /\ UNCHANGED <<targetMb, targetAlloy, pc, result>>

\* the loop is over: findValidCombinationBatched and calculateAlloy return;
\* timeTaken is the difference of two readings of performance.now()
Return ==
    /\ pc = "loop"
    /\ ~LoopRuns(locals)
    /\ \E timeTaken \in 0..MaxRuntimeMs :
          result' = <<FinalResult(BatchedResult(locals, targetMb), targetMb, timeTaken)>>
    /\ pc' = "done"
    /\ UNCHANGED <<targetMb, targetAlloy, stock, locals>>

Next == InsufficientTotal \/ InsufficientComponent \/ StartSearch \/ BatchIteration \/ Return

Spec == Init /\ [][Next]_vars

\* the call keeps running until it has returned: in every state but the
\* final ones a step of Next can be taken, so weak fairness of Next amounts to
\* steps being taken again and again unless the call is done
LiveSpec == Spec /\ ([]<>(pc = "done") \/ []<><<TRUE>>_vars)

(***************************************************************************)
(* One call of getNextBatchSize.  locals holds the two arguments, result   *)
(* the value returned.                                                     *)
(***************************************************************************)
MaxPlanIngots == 9

\* volumes at, just below and just above every whole number of ingots
PlanVolumes ==
    {v \in {INGOT_SIZE * n + d : n \in 0..MaxPlanIngots, d \in {-1, 0, 1}} : v >= 0}

PlanInit ==
    /\ \E remainingMb \in PlanVolumes, currentBatchSizeMb \in PlanVolumes :
          locals = [remainingMb |-> remainingMb, nextBatchSizeMb |-> currentBatchSizeMb]
    /\ targetMb = 0
    /\ targetAlloy = NoComponents
    /\ stock = <<>>
    /\ pc = "plan"
    /\ result = <<>>

PlanCall ==
    /\ pc = "plan"
    /\ result' = <<getNextBatchSize(locals.remainingMb, locals.nextBatchSizeMb)>>
    /\ pc' = "planned"
    /\ UNCHANGED <<targetMb, targetAlloy, stock, locals>>

PlannerSpec == PlanInit /\ [][PlanCall]_vars

(***************************************************************************)
(* One call of generateComponentCombinations.  stock holds the type group  *)
(* passed in, locals the interval in hundredths of a mB, result the value  *)
(* returned.                                                               *)
(***************************************************************************)
MaxSearchQty == 2

\* a type group as groupAndSortMinerals delivers it: descending yield
SearchCatalogue == <<TinVariant3, TinVariant2, TinVariant1>>

\* the catalogue's minerals picked by the set of positions, in catalogue order
SearchMinerals(picked) ==
    SelectSeq(SearchCatalogue, LAMBDA m : \E i \in picked : SearchCatalogue[i] = m)

SearchGroups ==
    UNION {{[i \in 1..Len(SearchMinerals(picked)) |-> Entry(SearchMinerals(picked)[i], q[i])] :
               q \in [1..Len(SearchMinerals(picked)) -> 0..MaxSearchQty]} :
           picked \in SUBSET (1..Len(SearchCatalogue))}

\* interval limits in hundredths of a mB: 0, whole volumes, and 8%, 12%, 88%
\* and 92% of an ingot
SearchLimits == {0, 1152, 1600, 1728, 4800, 7200, 12672, 13248, 14400}

SearchInit ==
    /\ stock \in SearchGroups
    /\ \E minMb \in SearchLimits, maxMb \in SearchLimits :
          locals = [minMb |-> minMb, maxMb |-> maxMb]
    /\ targetMb = 0
    /\ targetAlloy = NoComponents
    /\ pc = "search"
    /\ result = <<>>

SearchCall ==
    /\ pc = "search"
    /\ result' = <<generateComponentCombinations(stock, locals.minMb, locals.maxMb)>>
    /\ pc' = "searched"
    /\ UNCHANGED <<targetMb, targetAlloy, stock, locals>>

SearchSpec == SearchInit /\ [][SearchCall]_vars

(***************************************************************************)
(* One call of calculateSingleBatch.  targetMb holds the batch volume,     *)
(* targetAlloy the alloy whose components are passed in the declared       *)
(* order, stock the minerals, result the value returned.                   *)
(***************************************************************************)
MaxBatchQty == 4

MaxBatchIngots == 3

\* three components with pairwise distinct min
ThreeWay ==
    [name |-> "Three way",
     components |-> <<Component("tin", 10, 25), Component("iron", 20, 40), Component("copper", 40, 70)>>]

\* the sequence rearranged by the permutation of its positions
Permuted(seq, p) == [i \in 1..Len(seq) |-> seq[p[i]]]

Orders(n) == {p \in [1..n -> 1..n] : \A i, j \in 1..n : p[i] = p[j] => i = j}

\* the alloy with its components declared in every possible order
Declarations(alloy) ==
    {[name |-> alloy.name, components |-> Permuted(alloy.components, p)] :
        p \in Orders(Len(alloy.components))}

BatchCatalogue == <<Cassiterite, Tetrahedrite, Malachite, Hematite>>

BatchStocks ==
    {[i \in 1..Len(BatchCatalogue) |-> Entry(BatchCatalogue[i], q[i])] :
        q \in [1..Len(BatchCatalogue) -> 0..MaxBatchQty]}

BatchInit ==
    /\ targetMb \in {INGOT_SIZE * n : n \in 1..MaxBatchIngots}
    /\ targetAlloy \in Declarations(Bronze) \cup Declarations(HalfAndHalf) \cup Declarations(ThreeWay)
    /\ stock \in BatchStocks
    /\ locals = [declared |-> targetAlloy.components]
    /\ pc = "batch"
    /\ result = <<>>

BatchCall ==
    /\ pc = "batch"
    /\ result' = <<calculateSingleBatch(targetMb, locals.declared, stock)>>
    /\ pc' = "batched"
    /\ UNCHANGED <<targetMb, targetAlloy, stock, locals>>

BatchSpec == BatchInit /\ [][BatchCall]_vars

(***************************************************************************)
(* Properties                                                              *)
(***************************************************************************)
Done == pc = "done"

Succeeded == Done /\ result[1].success

Failed == Done /\ ~result[1].success

\* the attempts of the batch loop so far that found a batch
Accepted == {i \in 1..Len(locals.attempts) : locals.attempts[i].found.success}

\* the sum of the output volumes of the batches accepted so far
AcceptedMb == SumSeq([i \in 1..Len(locals.batchResults) |-> locals.batchResults[i].outputMb])

\* volume of the minerals of an allocation that produce the given type
TypeVolume(allocation, type) ==
    SumSeq([i \in 1..Len(allocation) |->
               IF ToLowerCase(allocation[i].mineral.produces) = ToLowerCase(type)
               THEN allocation[i].mineral.yield * allocation[i].quantity
               ELSE 0])

\* quantity of the mineral of that name in a stock with unique names, 0 if absent
QuantityIn(minerals, name) ==
    SumSeq([i \in 1..Len(minerals) |-> IF minerals[i].mineral.name = name THEN minerals[i].quantity ELSE 0])

UniqueNames(minerals) ==
    \A i, j \in 1..Len(minerals) : minerals[i].mineral.name = minerals[j].mineral.name => i = j

DistinctTypes(alloy) ==
    \A i, j \in 1..Len(alloy.components) :
        ToLowerCase(alloy.components[i].mineral) = ToLowerCase(alloy.components[j].mineral) => i = j

\* C1: in every successful result the allocation's volume, the sum of
\* quantity * yield over usedMinerals, equals the returned outputMb.
C1_AllocationVolumeIsOutput ==
    Succeeded => calculateTotalMb(result[1].usedMinerals) = result[1].outputMb

\* C2: every successful result returns outputMb equal to the requested targetMb.
C2_OutputIsTarget == Succeeded => result[1].outputMb = targetMb

\* a successful call whose accepted batches add up to more than the target
C2_Witness == Succeeded /\ AcceptedMb > targetMb /\ result[1].outputMb = targetMb

\* C3: in every successful result, for every component of the alloy, the
\* volume of the minerals producing the component's type lies between min%
\* and max% of the returned outputMb, bounds included.
C3_SharesWithinBands ==
    Succeeded =>
        \A k \in 1..Len(targetAlloy.components) :
            LET component == targetAlloy.components[k]
                mb == TypeVolume(result[1].usedMinerals, component.mineral)
            IN  /\ 100 * mb >= component.min * result[1].outputMb
                /\ 100 * mb <= component.max * result[1].outputMb

\* every name that occurs in a list of minerals with quantities
NamesOf(minerals) == {minerals[i].mineral.name : i \in 1..Len(minerals)}

\* the batch of each accepted attempt fits the stock the attempt ran against
BatchesWithinStock ==
    \A i \in Accepted :
        LET a == locals.attempts[i]
        IN  \A name \in NamesOf(a.recorded.usedMinerals) :
                QuantityIn(a.recorded.usedMinerals, name) <= QuantityIn(a.stock, name)

\* C4: for a stock with unique mineral names and an alloy with distinct
\* component types, every accepted batch, after scaling, uses of each mineral
\* at most the quantity in stock when the batch started, and no entry of a
\* successful result's allocation exceeds that mineral's quantity in the
\* original stock.
C4_AllocationWithinStock ==
    UniqueNames(stock) /\ DistinctTypes(targetAlloy) =>
        /\ BatchesWithinStock
        /\ Succeeded =>
              \A i \in 1..Len(result[1].usedMinerals) :
                  result[1].usedMinerals[i].quantity
                      <= QuantityIn(stock, result[1].usedMinerals[i].mineral.name)

\* a successful call with two accepted batches, one of them scaled, whose
\* allocation takes all there is of some mineral
C4_Witness ==
    /\ Succeeded /\ UniqueNames(stock) /\ DistinctTypes(targetAlloy)
    /\ Cardinality(Accepted) >= 2
    /\ \E i \in Accepted : locals.attempts[i].scale > 1
    /\ \E i \in 1..Len(result[1].usedMinerals) :
          result[1].usedMinerals[i].quantity = QuantityIn(stock, result[1].usedMinerals[i].mineral.name)

\* the k-th component's type has less volume in stock than min% of the target
ShortOf(k) ==
    100 * TypeVolume(stock, targetAlloy.components[k].mineral) < targetAlloy.components[k].min * targetMb

ShortComponents == {k \in 1..Len(targetAlloy.components) : ShortOf(k)}

\* C5: when the volume of the whole stock, minerals of every type counted,
\* is less than targetMb, the call fails with "Not enough total material
\* available", also when a component's type is short as well.
C5_InsufficientTotal ==
    Done /\ calculateTotalMb(stock) < targetMb =>
        ~result[1].success /\ result[1].message = NotEnoughTotal

\* the empty stock, which is short of every component too
C5_Witness ==
    /\ Done /\ stock = NoMinerals /\ ShortComponents # {}
    /\ result[1].message = NotEnoughTotal

\* C6: when the stock's volume reaches targetMb but some component's type
\* has less than min% of targetMb, the call fails with "Not enough <type> for
\* minimum requirement", <type> being the lower-cased type of the first such
\* component in the alloy's declared order, and no batch is searched for.
C6_InsufficientComponent ==
    Done /\ calculateTotalMb(stock) >= targetMb /\ ShortComponents # {} =>
        LET first == CHOOSE k \in ShortComponents : \A j \in ShortComponents : k <= j
        IN  /\ ~result[1].success
            /\ result[1].message =
                  <<"Not enough ", ToLowerCase(targetAlloy.components[first].mineral),
                    " for minimum requirement">>
            /\ locals.batchRunCount = 0
            /\ locals.attempts = <<>>

\* two components are short and the one declared first has the larger min
C6_Witness ==
    /\ Done /\ calculateTotalMb(stock) >= targetMb
    /\ \E j, k \in ShortComponents :
          /\ j < k
          /\ targetAlloy.components[j].min > targetAlloy.components[k].min
          /\ result[1].message = NotEnoughComponent(targetAlloy.components[j].mineral)

\* C7: every failure has outputMb 0, an empty allocation and one of the
\* three messages of calculateAlloy; batches accepted before the loop gave up
\* and the messages of the batches that found nothing are not reported.
C7_FailureShape ==
    Failed =>
        /\ result[1].outputMb = 0
        /\ result[1].usedMinerals = <<>>
        /\ \/ result[1].message = NotEnoughTotal
           \/ result[1].message = CouldNotFind
           \/ \E k \in 1..Len(targetAlloy.components) :
                 result[1].message = NotEnoughComponent(ToLowerCase(targetAlloy.components[k].mineral))

\* a failure after a batch was accepted and a later one named a component
C7_Witness ==
    /\ Failed /\ result[1].message = CouldNotFind
    /\ locals.batchAcceptCount >= 1 /\ locals.batchResults # <<>>
    /\ \E i \in 1..Len(locals.attempts) :
          /\ ~locals.attempts[i].found.success
          /\ Len(locals.attempts[i].found.message) = 2

\* the mineral produces the type of some component of the alloy
Referenced(mineral) ==
    \E k \in 1..Len(targetAlloy.components) :
        ToLowerCase(mineral.produces) = ToLowerCase(targetAlloy.components[k].mineral)

\* the stock without the minerals of types the alloy does not reference
ReferencedStock == SelectSeq(stock, LAMBDA m : Referenced(m.mineral))

\* C8: every mineral of a successful allocation produces, lower-cased, the
\* type of some component of the alloy, and a call that succeeds on the stock
\* without the minerals of other types succeeds on the whole stock as well.
C8_OnlyReferencedTypes ==
    Done =>
        /\ result[1].success =>
              \A i \in 1..Len(result[1].usedMinerals) : Referenced(result[1].usedMinerals[i].mineral)
        /\ calculateAlloy(targetMb, targetAlloy, ReferencedStock, 0).success => result[1].success

\* a success on a stock that holds minerals of other types
C8_Witness ==
    /\ Succeeded /\ result[1].usedMinerals # <<>>
    /\ Len(ReferencedStock) < Len(stock)
    /\ calculateAlloy(targetMb, targetAlloy, ReferencedStock, 0).success

\* the three stocks of the test's pass cases
PassStocks == {ExactMinerals, MoreThanEnoughMinerals, WithUnusedMinerals}

\* C9: three ingots of bronze from 3 tin of yield 16, 7 copper of yield 24
\* and 6 copper of yield 36 succeed with outputMb 432 and consume the whole
\* stock; each stock of the test's pass cases succeeds with an allocation of
\* 432 mB.
C9_ExactFit ==
    Done /\ targetMb = 3 * INGOT_SIZE /\ targetAlloy = Bronze /\ stock \in PassStocks =>
        /\ result[1].success
        /\ result[1].outputMb = 432
        /\ calculateTotalMb(result[1].usedMinerals) = 432
        /\ stock = ExactMinerals =>
              \A i \in 1..Len(stock) :
                  QuantityIn(result[1].usedMinerals, stock[i].mineral.name) = stock[i].quantity

\* the exact-fit call has returned
C9_Witness ==
    /\ Succeeded /\ targetMb = 432 /\ targetAlloy = Bronze /\ stock = ExactMinerals
    /\ Len(result[1].usedMinerals) = 3

\* quantities and output volume of the recorded batch are the found ones times k
ScaledBy(recorded, found, k) ==
    /\ recorded.outputMb = k * found.outputMb
    /\ Len(recorded.usedMinerals) = Len(found.usedMinerals)
    /\ \A j \in 1..Len(found.usedMinerals) :
          /\ recorded.usedMinerals[j].mineral = found.usedMinerals[j].mineral
          /\ recorded.usedMinerals[j].quantity = k * found.usedMinerals[j].quantity

\* C10: the scale k of an accepted batch is at least 1, k times the batch
\* fits the stock the batch was found against and k + 1 times does not (k is
\* the least floor of available / used over the minerals used, unbounded
\* when none is used); the batch is recorded once, with quantities and
\* output volume multiplied by k.
C10_BatchScaling ==
    /\ Len(locals.batchResults) = Cardinality(Accepted)
    /\ \A i \in Accepted :
          LET a == locals.attempts[i]
              used == a.found.usedMinerals
              k == a.scale
          IN  /\ k >= 1
              /\ \A j \in 1..Len(used) :
                    k * used[j].quantity <= QuantityIn(a.stock, used[j].mineral.name)
              /\ IF used = <<>> THEN k = MAX_SAFE_INTEGER
                 ELSE \E j \in 1..Len(used) :
                          (k + 1) * used[j].quantity > QuantityIn(a.stock, used[j].mineral.name)
              /\ ScaledBy(a.recorded, a.found, k)
              /\ locals.batchResults[Cardinality({h \in Accepted : h <= i})] = a.recorded

\* a batch repeatable three times, recorded once with tripled quantities
C10_Witness ==
    /\ Done /\ Len(locals.batchResults) = 1
    /\ \E i \in Accepted :
          /\ locals.attempts[i].scale = 3
          /\ locals.attempts[i].found.usedMinerals # <<>>
          /\ locals.attempts[i].recorded.outputMb = 3 * locals.attempts[i].found.outputMb

\* the two results agree on success, outputMb, message and allocation
SameDecision(r1, r2) ==
    /\ r1.success = r2.success
    /\ r1.outputMb = r2.outputMb
    /\ r1.message = r2.message
    /\ r1.usedMinerals = r2.usedMinerals

MaxFactor == 2

\* the stock with every quantity multiplied by k
ScaledStock(minerals, k) ==
    [i \in 1..Len(minerals) |-> [minerals[i] EXCEPT !.quantity = k * minerals[i].quantity]]

Capitalise(type) ==
    CASE type = "copper" -> "Copper"
      [] type = "tin" -> "Tin"
      [] OTHER -> type

\* the stock with the produces field of every mineral capitalised
CapitalisedStock(minerals) ==
    [i \in 1..Len(minerals) |->
        [minerals[i] EXCEPT !.mineral.produces = Capitalise(minerals[i].mineral.produces)]]

\* the alloy with the type of every component capitalised
CapitalisedAlloy(alloy) ==
    [alloy EXCEPT !.components =
        [k \in 1..Len(alloy.components) |->
            [alloy.components[k] EXCEPT !.mineral = Capitalise(alloy.components[k].mineral)]]]

\* the two results agree on success, outputMb and the quantity of each mineral
SameOutcome(r1, r2) ==
    /\ r1.success = r2.success
    /\ r1.outputMb = r2.outputMb
    /\ Len(r1.usedMinerals) = Len(r2.usedMinerals)
    /\ \A i \in 1..Len(r1.usedMinerals) :
          /\ r1.usedMinerals[i].mineral.name = r2.usedMinerals[i].mineral.name
          /\ r1.usedMinerals[i].quantity = r2.usedMinerals[i].quantity

\* C13: writing the produces field of the stock's minerals, or the type
\* names of the alloy's components, in another letter case changes neither
\* success nor outputMb nor the quantities of the allocation.
C13_CaseInsensitive ==
    Done =>
        /\ SameOutcome(calculateAlloy(targetMb, CapitalisedAlloy(targetAlloy), stock, 0), result[1])
        /\ SameOutcome(calculateAlloy(targetMb, targetAlloy, CapitalisedStock(stock), 0), result[1])

\* C14: every result returned, successful or failed, the two failures of
\* the feasibility checks included, carries stats with a usage record of
\* runtimeMs and memoryMB.
C14_UsageAlwaysReported ==
    Done =>
        /\ result[1].stats # <<>>
        /\ "usage" \in DOMAIN result[1].stats[1]
        /\ DOMAIN result[1].stats[1].usage = {"runtimeMs", "memoryMB"}

C16_Terminates ==
    /\ <>Done
    /\ [](/\ Len(locals.attempts) <= 4
          /\ locals.batchRunCount <= 5
          /\ \A i \in 1..Len(locals.attempts) : locals.attempts[i].size \in {720, 432, 288, 144})

\* a call that has returned after four batch attempts and a fifth iteration
C16_Witness == Done /\ Len(locals.attempts) = 4 /\ locals.batchRunCount = 5

\* the volume still to be produced when the i-th attempt was made
RemainingBefore(i) ==
    targetMb - SumSeq([j \in 1..(i - 1) |->
                          IF locals.attempts[j].found.success
                          THEN locals.attempts[j].recorded.outputMb
                          ELSE 0])

\* C17: the batch volumes attempted in a call are strictly decreasing,
\* after an accepted batch as after a declined one, and each is a positive
\* multiple of 144 mB not above the volume remaining when it is attempted.
C17_SizesStrictlyDecrease ==
    \A i \in 1..Len(locals.attempts) :
        /\ locals.attempts[i].size > 0
        /\ locals.attempts[i].size % INGOT_SIZE = 0
        /\ locals.attempts[i].size <= RemainingBefore(i)
        /\ i > 1 => locals.attempts[i].size < locals.attempts[i - 1].size

\* a batch was accepted, the volume left was at least its size, and the
\* next attempt was smaller; an earlier attempt had been declined
C17_Witness ==
    \E i \in 2..(Len(locals.attempts) - 1) :
        /\ ~locals.attempts[i - 1].found.success
        /\ locals.attempts[i].found.success
        /\ RemainingBefore(i + 1) >= locals.attempts[i].size
        /\ locals.attempts[i + 1].size < locals.attempts[i].size

\* C18: when targetMb is at least the maximum batch volume of 8 * 144 mB,
\* the first batch volume a call attempts is that maximum.
C18_StartsAtMaximum ==
    targetMb >= MAX_BATCH_MB /\ locals.attempts # <<>> =>
        locals.attempts[1].size = MAX_BATCH_MB

\* the batch volumes of the planner: the Fibonacci numbers up to 8, in ingots
PlanCandidates == {f * 144 : f \in {1, 2, 3, 5, 8}}

\* the candidates that fit the remaining volume and lie below the previous size
PlanFitting == {v \in PlanCandidates : v <= locals.remainingMb /\ v < locals.nextBatchSizeMb}

\* C19: getNextBatchSize(remaining, previous) returns the largest volume
\* f * 144, f a Fibonacci number up to 8, that is at most remaining and
\* strictly below previous, and null exactly when there is none, as when
\* remaining < 144 or previous <= 144; the unit counts are scanned in the
\* order 8, 5, 3, 2, 1.
C19_NextBatchSize ==
    /\ BATCH_SIZE_FIBONACCI_SEQ = <<8, 5, 3, 2, 1>>
    /\ pc = "planned" =>
          /\ PlanFitting = {} => result[1] = Null
          /\ PlanFitting # {} =>
                result[1] \in PlanFitting /\ \A v \in PlanFitting : v <= result[1]
          /\ locals.remainingMb < 144 \/ locals.nextBatchSizeMb <= 144 => result[1] = Null

\* a call that passes over the sizes that fit but are not below the previous one
C19_Witness ==
    /\ pc = "planned"
    /\ locals.remainingMb > 720 /\ locals.nextBatchSizeMb = 720
    /\ result[1] = 432

\* the volume lies within the interval of the search
WithinSearchInterval(mb) == 100 * mb >= locals.minMb /\ 100 * mb <= locals.maxMb

\* the selection an assignment of quantities stands for: the entries taken
\* with a positive quantity, in the order of the group
SelectionOf(q) ==
    SelectSeq([i \in 1..Len(stock) |-> Entry(stock[i].mineral, q[i])], LAMBDA e : e.quantity > 0)

\* the assignments of a quantity from 0 to the available one to every entry
SearchAssignments ==
    {q \in [1..Len(stock) -> 0..MaxSearchQty] : \A i \in 1..Len(stock) : q[i] <= stock[i].quantity}

\* C20: every combination generateComponentCombinations emits has a total
\* volume within [minMb, maxMb]; for every assignment of quantities between
\* 0 and the available one whose total volume lies within the interval, the
\* selection of the entries with a positive quantity is emitted at least
\* once; an empty group yields the empty selection once if 0 lies within the
\* interval and nothing otherwise.
C20_SearchSoundAndComplete ==
    pc = "searched" =>
        LET emitted == result[1].combinations
        IN  /\ \A j \in 1..Len(emitted) : WithinSearchInterval(calculateTotalMb(emitted[j]))
            /\ \A q \in SearchAssignments :
                  WithinSearchInterval(calculateTotalMb(SelectionOf(q))) =>
                      \E j \in 1..Len(emitted) : emitted[j] = SelectionOf(q)
            /\ stock = <<>> =>
                  emitted = IF WithinSearchInterval(0) THEN << <<>> >> ELSE <<>>

\* a search of three minerals that emitted a selection of all three and one
\* of a single mineral
C20_Witness ==
    /\ pc = "searched" /\ Len(stock) = 3
    /\ \E j, k \in 1..Len(result[1].combinations) :
          Len(result[1].combinations[j]) = 3 /\ Len(result[1].combinations[k]) = 1

RECURSIVE VolumesOf(_, _)
\* the volumes up to limit that quantities of the minerals, each between 0
\* and the available one, add up to
VolumesOf(minerals, limit) ==
    IF minerals = <<>> THEN {0}
    ELSE {v \in {w + Head(minerals).mineral.yield * q :
                    w \in VolumesOf(Tail(minerals), limit), q \in 0..Head(minerals).quantity} :
             v <= limit}

\* the stock's minerals that produce the type, whatever the letter case
MineralsProducing(minerals, type) ==
    SelectSeq(minerals, LAMBDA m : ToLowerCase(m.mineral.produces) = ToLowerCase(type))

RECURSIVE AdmitsFrom(_, _, _, _, _)
\* the components from the k-th on can be given volumes within their bands
\* of batchMb, from the minerals of their types, that add up to restMb
AdmitsFrom(k, restMb, batchMb, components, minerals) ==
    IF k > Len(components) THEN restMb = 0
    ELSE \E v \in VolumesOf(MineralsProducing(minerals, components[k].mineral), restMb) :
             /\ 100 * v >= components[k].min * batchMb
             /\ 100 * v <= components[k].max * batchMb
             /\ AdmitsFrom(k + 1, restMb - v, batchMb, components, minerals)

\* C21: whenever the stock a batch is attempted against admits an
\* allocation of exactly the attempted volume with every component's share
\* within its band, the attempt finds a batch (alloys with distinct
\* component types).
C21_FirstCombinationSuffices ==
    DistinctTypes(targetAlloy) =>
        \A i \in 1..Len(locals.attempts) :
            AdmitsFrom(1, locals.attempts[i].size, locals.attempts[i].size,
                       targetAlloy.components, locals.attempts[i].stock)
                => locals.attempts[i].found.success

\* the components have pairwise distinct min percentages
DistinctMins(components) ==
    \A i, j \in 1..Len(components) : components[i].min = components[j].min => i = j

\* C22: for components with pairwise distinct min, the batch found for the
\* declared order (success and allocation) is the one found for every other
\* order of the same components.
C22_DeclarationOrderIrrelevant ==
    (pc = "batched" /\ DistinctMins(locals.declared)) =>
        \A p \in Orders(Len(locals.declared)) :
            LET other == calculateSingleBatch(targetMb, Permuted(locals.declared, p), stock)
            IN  /\ other.success = result[1].success
                /\ other.usedMinerals = result[1].usedMinerals

\* a batch of three components declared in descending order of min was found
C22_Witness ==
    /\ pc = "batched"
    /\ Len(locals.declared) = 3
    /\ DistinctMins(locals.declared)
    /\ \A i \in 1..2 : locals.declared[i].min > locals.declared[i + 1].min
    /\ result[1].success
    /\ result[1].usedMinerals # <<>>

\* the stock returned by updateAvailableMinerals holds every mineral of
\* currentMinerals at its quantity minus the consumed one when that is
\* positive, and no entry of quantity <= 0
LedgerSubtracts(currentMinerals, usedMinerals, returned) ==
    /\ \A name \in NamesOf(currentMinerals) :
           LET left == QuantityIn(currentMinerals, name) - QuantityIn(usedMinerals, name)
           IN  left > 0 => /\ name \in NamesOf(returned)
                           /\ QuantityIn(returned, name) = left
    /\ NamesOf(returned) \subseteq NamesOf(currentMinerals)
    /\ \A i \in 1..Len(returned) : returned[i].quantity > 0

\* C23: for a stock of unique names and non-negative quantities, the stock
\* returned after an accepted batch holds each mineral's quantity minus the
\* consumed one and has no entry of quantity <= 0, consumed or not.
C23_LedgerDropsEmptyEntries ==
    \A i \in Accepted :
        LET a == locals.attempts[i]
        IN  (/\ UniqueNames(a.stock)
             /\ UniqueNames(a.recorded.usedMinerals)
             /\ \A k \in 1..Len(a.stock) : a.stock[k].quantity >= 0)
                => LedgerSubtracts(a.stock, a.recorded.usedMinerals,
                                   updateAvailableMinerals(a.stock, a.recorded.usedMinerals))

\* the step is a loop iteration whose attempt found no batch
DeclinedStep ==
    /\ pc = "loop"
    /\ Len(locals'.attempts) = Len(locals.attempts) + 1
    /\ ~locals'.attempts[Len(locals'.attempts)].found.success

\* C24: a loop iteration whose attempt fails leaves the current stock, the
\* remaining volume and the accepted batches as they were, adds one to the
\* decline counter and makes the volume tried the previous batch volume.
C24_DeclineFrame ==
    [][DeclinedStep =>
          /\ locals'.availableMinerals = locals.availableMinerals
          /\ locals'.remainingMb = locals.remainingMb
          /\ locals'.batchResults = locals.batchResults
          /\ locals'.batchAcceptCount = locals.batchAcceptCount
          /\ locals'.batchBacktrackPotential = locals.batchBacktrackPotential
          /\ locals'.batchDeclineCount = locals.batchDeclineCount + 1
          /\ locals'.nextBatchSizeMb = locals'.attempts[Len(locals'.attempts)].size
          /\ locals'.nextBatchSizeMb = getNextBatchSize(locals.remainingMb, locals.nextBatchSizeMb)]_vars

\* an attempt failed after a batch had been accepted: stock, remaining volume
\* and accepted batches were no longer the initial ones
C24_Witness ==
    /\ pc = "loop"
    /\ \E i \in Accepted : i < Len(locals.attempts)
    /\ ~locals.attempts[Len(locals.attempts)].found.success
    /\ locals.batchDeclineCount > 0
    /\ locals.batchResults # <<>>
    /\ locals.remainingMb > 0

\* the quantity of the mineral over the accepted batches, as recorded
UsedInBatches(name) ==
    SumSeq([i \in 1..Len(locals.batchResults) |-> QuantityIn(locals.batchResults[i].usedMinerals, name)])

\* C25: the allocation of a successful solve lists each mineral name at most
\* once, with a quantity above 0 that is the sum of the mineral's quantities
\* over the accepted batches, and its volume is the sum of the accepted
\* batches' output volumes.
C25_ConsolidatedAllocation ==
    Succeeded =>
        LET used == result[1].usedMinerals
        IN  /\ UniqueNames(used)
            /\ \A i \in 1..Len(used) :
                   /\ used[i].quantity > 0
                   /\ used[i].quantity = UsedInBatches(used[i].mineral.name)
            /\ \A b \in 1..Len(locals.batchResults) :
                   NamesOf(locals.batchResults[b].usedMinerals) \subseteq NamesOf(used)
            /\ calculateTotalMb(used) =
                   SumSeq([b \in 1..Len(locals.batchResults) |-> locals.batchResults[b].outputMb])

\* a successful solve of two accepted batches that share a mineral, one of
\* them scaled
C25_Witness ==
    /\ Succeeded
    /\ Len(locals.batchResults) >= 2
    /\ \E i \in Accepted : locals.attempts[i].scale > 1
    /\ NamesOf(locals.batchResults[1].usedMinerals) \cap NamesOf(locals.batchResults[2].usedMinerals) # {}

\* C26: the generation counter of runs in a solve's statistics is non-zero
\* whenever the solve made a batch attempt for an alloy with components, that
\* is whenever a component search ran (every search pops its initial state).
C26_GenerationCountersAggregate ==
    (/\ Done
     /\ result[1].stats # <<>>
     /\ locals.attempts # <<>>
     /\ targetAlloy.components # <<>>)
        => GenerationOf(result[1]).runs > 0

\* C27: at the start of every loop iteration and at loop exit, each mineral
\* of the original stock has its original quantity split between the current
\* stock and the batches accepted so far, and the remaining volume is
\* targetMb minus the accepted batches' output volumes.
C27_StockConservation ==
    pc \in {"loop", "done"} =>
        /\ \A name \in NamesOf(stock) :
               QuantityIn(locals.availableMinerals, name) + UsedInBatches(name) = QuantityIn(stock, name)
        /\ locals.remainingMb =
               targetMb - SumSeq([b \in 1..Len(locals.batchResults) |-> locals.batchResults[b].outputMb])

\* C28: for targetMb > 0 a successful result has a non-empty allocation; an
\* alloy without components, whose batches are empty, never yields success.
C28_SuccessHasAllocation ==
    (Done /\ targetMb > 0) =>
        /\ result[1].success => result[1].usedMinerals # <<>>
        /\ targetAlloy.components = <<>> => ~result[1].success

\* a successful result for a positive target: its allocation is what the
\* view shows
C28_Witness ==
    /\ Succeeded
    /\ targetMb > 0
    /\ locals.batchResults # <<>>
    /\ calculateTotalMb(result[1].usedMinerals) > 0

\* the sum of the accepted batches' output volumes
AllocatedMb == SumSeq([b \in 1..Len(locals.batchResults) |-> locals.batchResults[b].outputMb])

\* C29: the volume a successful solve allocates, the sum of the accepted
\* batches' output volumes, is a whole number of 144 mB units and at least
\* targetMb; an accepted batch that was not scaled is never larger than the
\* volume remaining when it was attempted, so the remaining volume is below
\* zero only after a scaled batch.
C29_AllocatedVolume ==
    /\ Succeeded => /\ AllocatedMb % INGOT_SIZE = 0
                    /\ AllocatedMb >= targetMb
    /\ pc \in {"loop", "done"} =>
           /\ \A i \in Accepted :
                  locals.attempts[i].scale <= 1 =>
                      locals.attempts[i].recorded.outputMb <= RemainingBefore(i)
           /\ locals.remainingMb < 0 => \E i \in Accepted : locals.attempts[i].scale > 1

\* a successful solve of an unscaled batch followed by a scaled one that
\* took the remaining volume below zero
C29_Witness ==
    /\ Succeeded
    /\ locals.remainingMb < 0
    /\ AllocatedMb > targetMb
    /\ \E i, j \in Accepted : /\ i < j
                              /\ locals.attempts[i].scale = 1
                              /\ locals.attempts[j].scale > 1

\* C30: for a target above 0 and below one unit of 144 mB that passes both
\* feasibility checks, no batch is attempted and the result is the failure
\* "Could not find valid combination of materials", whatever the stock.
C30_BelowOneUnit ==
    (/\ Done
     /\ 0 < targetMb
     /\ targetMb < INGOT_SIZE
     /\ TotalAvailable(stock) >= targetMb
     /\ FirstDeficient(targetAlloy, targetMb, stock) = 0)
        => /\ locals.attempts = <<>>
           /\ locals.batchResults = <<>>
           /\ ~result[1].success
           /\ result[1].message = CouldNotFind
           /\ result[1].outputMb = 0
           /\ result[1].usedMinerals = <<>>

\* a target of 100 mB was refused although the stock holds an exact Bronze
\* ingot and more: the loop ended in its first iteration
C30_Witness ==
    /\ Done
    /\ targetMb = 100
    /\ targetAlloy = Bronze
    /\ QuantityIn(stock, "Cassiterite") >= 1
    /\ QuantityIn(stock, "Malachite") >= 1
    /\ locals.batchRunCount = 1
    /\ locals.batchBacktrackPotential = 1
    /\ locals.attempts = <<>>
    /\ result[1].message = CouldNotFind

====
